---- MODULE Spec2Model ----
(***************************************************************************)
(* Model of the MVCC key-value engine of server.py: Record, Transaction,   *)
(* the implicit/pre/post transaction wrappers, the Server operations and   *)
(* the sessions of WebServer.                                              *)
(***************************************************************************)
EXTENDS Integers, Sequences, FiniteSets

\* ---- bounds -----------------------------------------------------------
\* highest value the clock is read at (number of distinct transaction ids)
MaxTxn == 3
\* longest version chain a key is allowed to grow to
MaxChain == 3

Keys == {"k"}
Values == {"v1"}
\* the connections WebServer.handler runs for
Sessions == {"c1", "c2"}

\* ---- TransactionState (server.py:42-46) --------------------------------
ACTIVE == "ACTIVE"
COMMITTED == "COMMITTED"
ABORTED == "ABORTED"
ABORTED_FAILED == "ABORTED_FAILED"
TransactionState == {ACTIVE, COMMITTED, ABORTED, ABORTED_FAILED}

\* Python's None as returned by Server.get
None == "None"
\* outcomes of a call: normal return or the exception that escapes it
OK == "ok"
ValueError == "ValueError"
LookupError == "LookupError"
KeyError == "KeyError"

VARIABLES
    transactions,   \* Server._transactions: id -> Transaction
    database,       \* Server._database: key -> list of Record
    clock,          \* highest value _get_now_in_seconds has returned so far
    last,           \* what the caller of the last call got: status, result
    session         \* WebServer.handler: the session dict of every connection

vars == <<transactions, database, clock, last, session>>

\* ---- Record -----------------------------------------------------------
Record(value, transaction_min, transaction_max) ==
    [value |-> value,
     transaction_min |-> transaction_min,
     transaction_max |-> transaction_max]

for_insert(value, transaction_min) == Record(value, transaction_min, 0)

\* ---- Transaction ------------------------------------------------------
Transaction(created_at, state) == [created_at |-> created_at, state |-> state]

\* is_visible_to without the test for COMMITTED: every older transaction
\* that is not aborted counts as visible
is_visible_to_any_older(txn, curr_created_at) ==
    IF txn.state = ABORTED THEN FALSE
    ELSE IF txn.state = ABORTED_FAILED THEN FALSE
    ELSE \/ txn.created_at = curr_created_at
         \/ txn.created_at < curr_created_at

\* is_visible_to with the test for ABORTED only: a transaction poisoned by
\* a failed call is treated as a live one
is_visible_to_failed_counts(txn, curr_created_at) ==
    IF txn.state = ABORTED THEN FALSE
    ELSE LET within_txn == txn.created_at = curr_created_at
             is_visible == /\ txn.state = COMMITTED
                           /\ txn.created_at < curr_created_at
         IN  within_txn \/ is_visible

is_visible_to(txn, curr_created_at) ==
    IF txn.state = ABORTED THEN FALSE
    ELSE IF txn.state = ABORTED_FAILED THEN FALSE
    ELSE LET within_txn == txn.created_at = curr_created_at
             is_visible == /\ txn.state = COMMITTED
                           /\ txn.created_at < curr_created_at
         IN  within_txn \/ is_visible

\* ---- the transaction table ---------------------------------------------
\* self._transactions[txn.created_at] = txn
start_transaction(txns, t) ==
    [id \in (DOMAIN txns) \cup {t} |->
        IF id = t THEN Transaction(t, ACTIVE) ELSE txns[id]]

\* txn.state = <state>
SetState(txns, txn_id, state) ==
    [txns EXCEPT ![txn_id] = Transaction(txns[txn_id].created_at, state)]

\* pre_transaction without the test of the state
pre_transaction_any_state(txns, txn_id) ==
    IF txn_id = 0 THEN ValueError
    ELSE IF txn_id \notin DOMAIN txns THEN LookupError
    ELSE OK

\* the checks of pre_transaction: what it raises, or OK when it calls func
pre_transaction(txns, txn_id) ==
    IF txn_id = 0 THEN ValueError
    ELSE IF txn_id \notin DOMAIN txns THEN LookupError
    ELSE IF txns[txn_id].state # ACTIVE THEN ValueError
    ELSE OK

\* the except branch of post_transaction
post_transaction(txns, txn_id, status) ==
    IF status # OK /\ txn_id # 0
    THEN SetState(txns, txn_id, ABORTED_FAILED)
    ELSE txns

\* ---- record selection --------------------------------------------------
\* the loop of get_record over reversed(chain), from position i downwards;
\* the result is the position of the Record returned, 0 for None
RECURSIVE Walk(_, _, _, _)
Walk(chain, txns, txn_id, i) ==
    IF i = 0 THEN 0
    ELSE LET record == chain[i]
             has_delete_txn == record.transaction_max \in DOMAIN txns
             insert_txn == txns[record.transaction_min]
         IN  IF /\ has_delete_txn
                /\ is_visible_to(txns[record.transaction_max], txn_id)
             THEN 0
             ELSE IF ~is_visible_to(insert_txn, txn_id)
             THEN Walk(chain, txns, txn_id, i - 1)
             ELSE i

get_record(db, txns, key, txn_id) ==
    IF Len(db[key]) = 0 THEN 0
    ELSE Walk(db[key], txns, txn_id, Len(db[key]))

\* record.value if record else None
get(db, txns, key, txn_id) ==
    LET i == get_record(db, txns, key, txn_id)
    IN  IF i = 0 THEN None ELSE db[key][i].value

\* ---- bodies of the mutating operations ---------------------------------
\* Server.delete stamping the tombstone with the deleter as its inserter
delete_own_xmin(db, txns, key, txn_id) ==
    IF Len(db[key]) = 0 THEN [status |-> KeyError, db |-> db]
    ELSE LET i == get_record(db, txns, key, txn_id)
         IN  IF i = 0 THEN [status |-> KeyError, db |-> db]
             ELSE LET prev_record == db[key][i]
                      record == Record(prev_record.value, txn_id, txn_id)
                  IN  [status |-> OK,
                       db |-> [db EXCEPT ![key] = Append(@, record)]]

\* Server.delete below its wrappers: the status and the database it leaves
delete(db, txns, key, txn_id) ==
    IF Len(db[key]) = 0 THEN [status |-> KeyError, db |-> db]
    ELSE LET i == get_record(db, txns, key, txn_id)
         IN  IF i = 0 THEN [status |-> KeyError, db |-> db]
             ELSE LET prev_record == db[key][i]
                      record == Record(prev_record.value,
                                       prev_record.transaction_min,
                                       txn_id)
                  IN  [status |-> OK,
                       db |-> [db EXCEPT ![key] = Append(@, record)]]

\* Server.put calling delete whether or not a Record is visible to the writer
put_always_deletes(db, txns, key, value, txn_id) ==
    LET deleted == delete(db, txns, key, txn_id)
    IN  IF deleted.status # OK THEN deleted
        ELSE [status |-> OK,
              db |-> [deleted.db EXCEPT
                         ![key] = Append(@, for_insert(value, txn_id))]]

\* Server.put marking the Record it replaces in place, by writing the id of
\* the writer into its transaction_max, where put appends a tombstone copy
put_marks_in_place(db, txns, key, value, txn_id) ==
    LET i == get_record(db, txns, key, txn_id)
        marked == IF i # 0
                  THEN [db EXCEPT ![key][i].transaction_max = txn_id]
                  ELSE db
    IN  [status |-> OK,
         db |-> [marked EXCEPT ![key] = Append(@, for_insert(value, txn_id))]]

\* Server.put below its wrappers
put(db, txns, key, value, txn_id) ==
    LET i == get_record(db, txns, key, txn_id)
        deleted == IF i # 0 THEN delete(db, txns, key, txn_id)
                   ELSE [status |-> OK, db |-> db]
    IN  IF deleted.status # OK THEN deleted
        ELSE [status |-> OK,
              db |-> [deleted.db EXCEPT
                         ![key] = Append(@, for_insert(value, txn_id))]]

Max(a, b) == IF a >= b THEN a ELSE b

\* what the caller of an operation observes: how it ended and what it returned
Call(status, result) == [status |-> status, result |-> result]

\* the session dict of handler: the bound transaction (0 for None), the
\* status of the response written last (None before the first), and whether
\* the handler is still in its loop
Session(txn_id, output, serving) ==
    [txn_id |-> txn_id, output |-> output, serving |-> serving]

\* a Server that no WebServer wraps has no connection
NoSessions == [c \in {} |-> Session(0, None, TRUE)]

\* ---- Init --------------------------------------------------------------
Init ==
    /\ transactions = [id \in {} |-> Transaction(0, ACTIVE)]
    /\ database = [k \in Keys |-> <<>>]
    /\ clock = 0
    /\ last = Call(OK, None)
    /\ session = NoSessions

\* ---- operations --------------------------------------------------------
\* t is the value _get_now_in_seconds returns if the call reads the clock

StartTransaction(t) ==
    /\ t <= MaxTxn
    /\ transactions' = start_transaction(transactions, t)
    /\ clock' = Max(clock, t)
    /\ last' = Call(OK, None)
    /\ UNCHANGED database

CommitTransaction(txn_id) ==
    LET pre == pre_transaction(transactions, txn_id)
    IN  /\ transactions' = IF pre = OK
                           THEN SetState(transactions, txn_id, COMMITTED)
                           ELSE transactions
        /\ last' = Call(pre, None)
        /\ UNCHANGED <<database, clock>>

\* rollback_transaction dropping the entry of the transaction it aborts
RollbackTransaction_forgets(txn_id) ==
    LET pre == pre_transaction(transactions, txn_id)
    IN  /\ transactions' = IF pre = OK
                           THEN [id \in (DOMAIN transactions) \ {txn_id} |->
                                    transactions[id]]
                           ELSE transactions
        /\ last' = Call(pre, None)
        /\ UNCHANGED <<database, clock>>

\* rollback_transaction writing the state of a failed transaction
RollbackTransaction_as_failed(txn_id) ==
    LET pre == pre_transaction(transactions, txn_id)
    IN  /\ transactions' = IF pre = OK
                           THEN SetState(transactions, txn_id, ABORTED_FAILED)
                           ELSE transactions
        /\ last' = Call(pre, None)
        /\ UNCHANGED <<database, clock>>

RollbackTransaction(txn_id) ==
    LET pre == pre_transaction(transactions, txn_id)
    IN  /\ transactions' = IF pre = OK
                           THEN SetState(transactions, txn_id, ABORTED)
                           ELSE transactions
        /\ last' = Call(pre, None)
        /\ UNCHANGED <<database, clock>>

\* implicit_transaction: the id the body runs under, and the table after
\* the wrapper has started a transaction for a call made without an id
EffectiveId(txn_id, t) == IF txn_id = 0 THEN t ELSE txn_id

Started(txn_id, t) ==
    IF txn_id = 0 THEN start_transaction(transactions, t) ELSE transactions

\* the wrappers with post_transaction applied around pre_transaction: an
\* error raised by the checks of the id poisons the transaction as well
Wrapped_poisons_refused(txn_id, t, out) ==
    LET is_implicit == txn_id = 0
        txn == EffectiveId(txn_id, t)
        started == Started(txn_id, t)
        pre == pre_transaction(started, txn)
    IN  /\ is_implicit => t <= MaxTxn
        /\ clock' = IF is_implicit THEN Max(clock, t) ELSE clock
        /\ IF pre # OK
           THEN /\ transactions' =
                     IF txn \in DOMAIN started
                     THEN SetState(started, txn, ABORTED_FAILED)
                     ELSE started
                /\ database' = database
                /\ last' = Call(pre, None)
           ELSE LET posted == post_transaction(started, txn, out.status)
                IN  /\ \A k \in Keys : Len(out.db[k]) <= MaxChain
                    /\ database' = out.db
                    /\ transactions' =
                         IF is_implicit /\ out.status = OK
                         THEN SetState(posted, txn, COMMITTED)
                         ELSE posted
                    /\ last' = Call(out.status, out.result)

\* the wrappers with post_transaction reading the txn_id the caller passed
\* instead of the one implicit_transaction put into kwargs: the transaction
\* of a failed call made without an id is not poisoned
Wrapped_implicit_not_poisoned(txn_id, t, out) ==
    LET is_implicit == txn_id = 0
        txn == EffectiveId(txn_id, t)
        started == Started(txn_id, t)
        pre == pre_transaction(started, txn)
    IN  /\ is_implicit => t <= MaxTxn
        /\ clock' = IF is_implicit THEN Max(clock, t) ELSE clock
        /\ IF pre # OK
           THEN /\ transactions' = started
                /\ database' = database
                /\ last' = Call(pre, None)
           ELSE LET posted == post_transaction(started, txn_id, out.status)
                IN  /\ \A k \in Keys : Len(out.db[k]) <= MaxChain
                    /\ database' = out.db
                    /\ transactions' =
                         IF is_implicit /\ out.status = OK
                         THEN SetState(posted, txn, COMMITTED)
                         ELSE posted
                    /\ last' = Call(out.status, out.result)

\* implicit_transaction, pre_transaction and post_transaction around a body
\* that leaves out = [status, db, result] when it is run
Wrapped(txn_id, t, out) ==
    LET is_implicit == txn_id = 0
        txn == EffectiveId(txn_id, t)
        started == Started(txn_id, t)
        pre == pre_transaction(started, txn)
    IN  /\ is_implicit => t <= MaxTxn
        /\ clock' = IF is_implicit THEN Max(clock, t) ELSE clock
        /\ IF pre # OK
           THEN /\ transactions' = started
                /\ database' = database
                /\ last' = Call(pre, None)
           ELSE LET posted == post_transaction(started, txn, out.status)
                IN  /\ \A k \in Keys : Len(out.db[k]) <= MaxChain
                    /\ database' = out.db
                    /\ transactions' =
                         IF is_implicit /\ out.status = OK
                         THEN SetState(posted, txn, COMMITTED)
                         ELSE posted
                    /\ last' = Call(out.status, out.result)

Get(key, txn_id, t) ==
    LET result == get(database, Started(txn_id, t), key,
                      EffectiveId(txn_id, t))
    IN  Wrapped(txn_id, t,
                [status |-> OK, db |-> database, result |-> result])

Put(key, value, txn_id, t) ==
    LET out == put(database, Started(txn_id, t), key, value,
                   EffectiveId(txn_id, t))
    IN  Wrapped(txn_id, t,
                [status |-> out.status, db |-> out.db, result |-> None])

Delete(key, txn_id, t) ==
    LET out == delete(database, Started(txn_id, t), key,
                      EffectiveId(txn_id, t))
    IN  Wrapped(txn_id, t,
                [status |-> out.status, db |-> out.db, result |-> None])

\* the None that get_record returns in place of a Record
NoRecord == Record(None, 0, 0)

\* Server.get_record called from outside, under its own three wrappers
GetRecord(key, txn_id, t) ==
    LET i == get_record(database, Started(txn_id, t), key,
                        EffectiveId(txn_id, t))
        result == IF i = 0 THEN NoRecord ELSE database[key][i]
    IN  Wrapped(txn_id, t,
                [status |-> OK, db |-> database, result |-> result])

\* ids a caller may pass: 0 stands for no id, the others may be unknown
TxnArgs == 0 .. MaxTxn

\* a clock that advances between any two readings
MonotonicClock == {clock + 1}
\* time.time(): a reading may repeat or fall behind an earlier one
WallClock == 1 .. (clock + 1)
\* two readings within one tick of time.time(): the value before, or a later
RepeatingClock == {clock, clock + 1}

Next ==
    \/ \E t \in MonotonicClock : StartTransaction(t) /\ UNCHANGED session
    \/ \E txn_id \in TxnArgs :
           CommitTransaction(txn_id) /\ UNCHANGED session
    \/ \E txn_id \in TxnArgs :
           RollbackTransaction(txn_id) /\ UNCHANGED session
    \/ \E t \in MonotonicClock, key \in Keys, txn_id \in TxnArgs :
           Get(key, txn_id, t) /\ UNCHANGED session
    \/ \E t \in MonotonicClock, key \in Keys, value \in Values,
          txn_id \in TxnArgs :
           Put(key, value, txn_id, t) /\ UNCHANGED session
    \/ \E t \in MonotonicClock, key \in Keys, txn_id \in TxnArgs :
           Delete(key, txn_id, t) /\ UNCHANGED session

Spec == Init /\ [][Next]_vars

\* the same calls under a clock that is read as time.time() is
NextWall ==
    \/ \E t \in WallClock : StartTransaction(t) /\ UNCHANGED session
    \/ \E txn_id \in TxnArgs :
           CommitTransaction(txn_id) /\ UNCHANGED session
    \/ \E txn_id \in TxnArgs :
           RollbackTransaction(txn_id) /\ UNCHANGED session
    \/ \E t \in WallClock, key \in Keys, txn_id \in TxnArgs :
           Get(key, txn_id, t) /\ UNCHANGED session
    \/ \E t \in WallClock, key \in Keys, value \in Values,
          txn_id \in TxnArgs :
           Put(key, value, txn_id, t) /\ UNCHANGED session
    \/ \E t \in WallClock, key \in Keys, txn_id \in TxnArgs :
           Delete(key, txn_id, t) /\ UNCHANGED session

SpecWall == Init /\ [][NextWall]_vars

\* the calls of Spec and get_record as a call of its own
NextRecord ==
    \/ Next
    \/ \E t \in MonotonicClock, key \in Keys, txn_id \in TxnArgs :
           GetRecord(key, txn_id, t) /\ UNCHANGED session

SpecRecord == Init /\ [][NextRecord]_vars

\* ---- Transaction.is_visible_to on its own --------------------------------
\* The table holds the one Transaction the method is called on, drawn from
\* every state and id; a call leaves the curr_created_at it was given in
\* clock and the boolean it returned in last.result.
VisibilityIds == 1 .. (MaxTxn + 2)

InitVisibility ==
    /\ \E id \in VisibilityIds : \E state \in TransactionState :
           transactions = [i \in {id} |-> Transaction(id, state)]
    /\ database = [k \in Keys |-> <<>>]
    /\ clock = 0
    /\ last = Call(OK, None)
    /\ session = NoSessions

IsVisibleTo(id, curr_created_at) ==
    /\ last' = Call(OK, is_visible_to(transactions[id], curr_created_at))
    /\ clock' = curr_created_at
    /\ UNCHANGED <<transactions, database, session>>

NextVisibility ==
    \E id \in DOMAIN transactions : \E curr_created_at \in VisibilityIds :
        IsVisibleTo(id, curr_created_at)

SpecVisibility == InitVisibility /\ [][NextVisibility]_vars

\* ---- WebServer ----------------------------------------------------------
\* A request is the text read from the connection with its trailing newline
\* stripped, written as the sequence of its tokens; <<>> is the empty line.
COMMANDS == {"GET", "PUT", "DELETE", "START", "COMMIT", "ROLLBACK"}

Request(command, key, value) ==
    [command |-> command, key |-> key, value |-> value]
\* the None that parse returns in place of a Request
NoRequest == Request(None, None, None)

\* parse: the exception it raises, or OK and what it returns
parse(request) ==
    IF Len(request) = 0 THEN [status |-> ValueError, request |-> NoRequest]
    ELSE LET command == request[1]
             key == IF Len(request) > 1 THEN request[2] ELSE ""
             value == IF Len(request) > 2 THEN request[3] ELSE ""
         IN  IF command = "PUT" /\ value = ""
             THEN [status |-> OK, request |-> NoRequest]
             ELSE IF command = "DELETE" /\ key = ""
             THEN [status |-> OK, request |-> NoRequest]
             ELSE [status |-> OK, request |-> Request(command, key, value)]

\* the lines of the malformed input rules: the empty line, PUT with no
\* value, DELETE with no key, a command that is not in COMMANDS
MalformedLines ==
    {<<>>, <<"DELETE">>, <<"FOO">>} \cup {<<"PUT", k>> : k \in Keys}
LinesOf(command) ==
    IF command = "GET" THEN {<<"GET", k>> : k \in Keys}
    ELSE IF command = "PUT"
    THEN {<<"PUT", k, v>> : k \in Keys, v \in Values}
    ELSE IF command = "DELETE" THEN {<<"DELETE", k>> : k \in Keys}
    ELSE {<<command>>}

\* the status handler writes for a call of the Server that ended with
\* status: Ok when a do_ method ran to its end, Error from the except branch
Output(status) == IF status = OK THEN "Ok" ELSE "Error"

\* do_get: a result that is None is answered with Error as well
do_get(c, request, t) ==
    /\ Get(request.key, session[c].txn_id, t)
    /\ session' = [session EXCEPT ![c].output =
                      IF last'.status = OK /\ last'.result # None
                      THEN "Ok" ELSE "Error"]

do_put(c, request, t) ==
    /\ Put(request.key, request.value, session[c].txn_id, t)
    /\ session' = [session EXCEPT ![c].output = Output(last'.status)]

do_delete(c, request, t) ==
    /\ Delete(request.key, session[c].txn_id, t)
    /\ session' = [session EXCEPT ![c].output = Output(last'.status)]

do_start_transaction(c, request, t) ==
    /\ StartTransaction(t)
    /\ session' = [session EXCEPT ![c] = Session(t, "Ok", TRUE)]

\* session['txn_id'] = None is reached only when the call of the Server
\* returned
do_commit_transaction(c, request) ==
    /\ CommitTransaction(session[c].txn_id)
    /\ session' = [session EXCEPT ![c] =
                      IF last'.status = OK
                      THEN Session(0, "Ok", TRUE)
                      ELSE Session(session[c].txn_id, "Error", TRUE)]

do_rollback_transaction(c, request) ==
    /\ RollbackTransaction(session[c].txn_id)
    /\ session' = [session EXCEPT ![c] =
                      IF last'.status = OK
                      THEN Session(0, "Ok", TRUE)
                      ELSE Session(session[c].txn_id, "Error", TRUE)]

\* one turn of the loop of handler for connection c: line is what was read,
\* t what the clock returns if the Server reads it. parse is called outside
\* the try: what it raises ends the handler with no response written.
handler(c, line, t) ==
    /\ session[c].serving
    /\ LET parsed == parse(line)
           request == parsed.request
       IN  IF parsed.status # OK
           THEN /\ session' = [session EXCEPT ![c].serving = FALSE]
                /\ UNCHANGED <<transactions, database, clock, last>>
           ELSE IF request = NoRequest \/ request.command \notin COMMANDS
           THEN /\ session' = [session EXCEPT ![c].output = "Error"]
                /\ UNCHANGED <<transactions, database, clock, last>>
           ELSE CASE request.command = "GET" -> do_get(c, request, t)
                  [] request.command = "PUT" -> do_put(c, request, t)
                  [] request.command = "DELETE" -> do_delete(c, request, t)
                  [] request.command = "START" ->
                         do_start_transaction(c, request, t)
                  [] request.command = "COMMIT" ->
                         do_commit_transaction(c, request)
                  [] request.command = "ROLLBACK" ->
                         do_rollback_transaction(c, request)

\* WebServer.__init__: self.server.put('intro', 'Hello, World!'), the pair
\* being the key and the value of the model, under the implicit transaction
\* of the first reading of the clock
InitWeb ==
    /\ transactions = [id \in {1} |-> Transaction(1, COMMITTED)]
    /\ database = [k \in Keys |-> <<for_insert("v1", 1)>>]
    /\ clock = 1
    /\ last = Call(OK, None)
    /\ session = [c \in Sessions |-> Session(0, None, TRUE)]

NextWeb ==
    \/ \E c \in Sessions, line \in MalformedLines, t \in MonotonicClock :
           handler(c, line, t)
    \/ \E c \in Sessions, line \in LinesOf("GET"), t \in MonotonicClock :
           handler(c, line, t)
    \/ \E c \in Sessions, line \in LinesOf("PUT"), t \in MonotonicClock :
           handler(c, line, t)
    \/ \E c \in Sessions, line \in LinesOf("DELETE"), t \in MonotonicClock :
           handler(c, line, t)
    \/ \E c \in Sessions, line \in LinesOf("START"), t \in MonotonicClock :
           handler(c, line, t)
    \/ \E c \in Sessions, line \in LinesOf("COMMIT"), t \in MonotonicClock :
           handler(c, line, t)
    \/ \E c \in Sessions, line \in LinesOf("ROLLBACK"), t \in MonotonicClock :
           handler(c, line, t)

SpecWeb == InitWeb /\ [][NextWeb]_vars

\* the same requests over a Server whose clock is read as time.time() is:
\* a reading may return the value of the reading before it
NextWebWall ==
    \/ \E c \in Sessions, line \in MalformedLines, t \in RepeatingClock :
           handler(c, line, t)
    \/ \E c \in Sessions, line \in LinesOf("GET"), t \in RepeatingClock :
           handler(c, line, t)
    \/ \E c \in Sessions, line \in LinesOf("PUT"), t \in RepeatingClock :
           handler(c, line, t)
    \/ \E c \in Sessions, line \in LinesOf("DELETE"), t \in RepeatingClock :
           handler(c, line, t)
    \/ \E c \in Sessions, line \in LinesOf("START"), t \in RepeatingClock :
           handler(c, line, t)
    \/ \E c \in Sessions, line \in LinesOf("COMMIT"), t \in RepeatingClock :
           handler(c, line, t)
    \/ \E c \in Sessions, line \in LinesOf("ROLLBACK"), t \in RepeatingClock :
           handler(c, line, t)

SpecWebWall == InitWeb /\ [][NextWebWall]_vars

\* ---- vocabulary of the properties ---------------------------------------
StateOf(id) == transactions[id].state
Terminal == {COMMITTED, ABORTED, ABORTED_FAILED}
ActiveIds == {id \in DOMAIN transactions : StateOf(id) = ACTIVE}
\* ids a call may be made with and run its body: no id (the implicit wrapper
\* starts a transaction) or the id of an ACTIVE transaction
WriterArgs == {0} \cup ActiveIds

\* ---- the calls that pass pre_transaction ---------------------------------
\* Callers that name only transactions that are ACTIVE. A refused call
\* changes neither the table nor the chains, so the tables and chains
\* reached are those of Spec.
NextActive ==
    \/ \E t \in MonotonicClock : StartTransaction(t) /\ UNCHANGED session
    \/ \E txn_id \in ActiveIds :
           CommitTransaction(txn_id) /\ UNCHANGED session
    \/ \E txn_id \in ActiveIds :
           RollbackTransaction(txn_id) /\ UNCHANGED session
    \/ \E t \in MonotonicClock, key \in Keys, txn_id \in WriterArgs :
           Get(key, txn_id, t) /\ UNCHANGED session
    \/ \E t \in MonotonicClock, key \in Keys, value \in Values,
          txn_id \in WriterArgs :
           Put(key, value, txn_id, t) /\ UNCHANGED session
    \/ \E t \in MonotonicClock, key \in Keys, txn_id \in WriterArgs :
           Delete(key, txn_id, t) /\ UNCHANGED session

SpecActive == Init /\ [][NextActive]_vars

\* the ids a read can run under: an ACTIVE transaction, or the transaction
\* the implicit wrapper would start at the next reading of the clock
Readers == ActiveIds \cup {clock + 1}
\* the transaction whose call appended the record: the deleter of a
\* tombstone, the inserter of a live record
Writer(record) ==
    IF record.transaction_max # 0 THEN record.transaction_max
    ELSE record.transaction_min
\* the database as it would be had T never written
WithoutWritesOf(db, T) ==
    [k \in Keys |-> SelectSeq(db[k], LAMBDA r : Writer(r) # T)]
WrittenBy(db, k, T) == {i \in 1 .. Len(db[k]) : Writer(db[k][i]) = T}
SetMax(S) == CHOOSE i \in S : \A j \in S : j <= i
\* what T's last write to k left: the value put, or None after a delete
OwnLast(db, k, T) ==
    LET record == db[k][SetMax(WrittenBy(db, k, T))]
    IN  IF record.transaction_max = T THEN None ELSE record.value
\* the records the step appended to k
Appended(k) ==
    {i \in 1 .. Len(database'[k]) : i > Len(database[k])}
WritesInStep(T) ==
    \E k \in Keys : \E i \in Appended(k) : Writer(database'[k][i]) = T
OthersUnchanged(T) ==
    /\ DOMAIN transactions' = DOMAIN transactions
    /\ \A id \in DOMAIN transactions :
           id # T => transactions'[id] = transactions[id]

\* C1: after rollback(T) or poisoning of T every reader U # T gets, for
\* every key, the value it would get if the Records T appended were absent.
C1_AbortedWritesAbsent ==
    \A T \in DOMAIN transactions :
        StateOf(T) \in {ABORTED, ABORTED_FAILED} =>
            \A k \in Keys : \A U \in Readers \ {T} :
                get(database, transactions, k, U)
                    = get(WithoutWritesOf(database, T), transactions, k, U)

\* C2: a reader's snapshot is fixed at its start: a step in which the ACTIVE
\* reader T writes nothing leaves get(k, T) unchanged for every key.
C2_SnapshotFixedAtStart ==
    [][\A T \in ActiveIds :
          (/\ T \in DOMAIN transactions'
           /\ transactions'[T].state = ACTIVE
           /\ ~WritesInStep(T))
          => \A k \in Keys :
                 get(database', transactions', k, T)
                     = get(database, transactions, k, T)]_vars

\* C3: a put or delete of an ACTIVE transaction T that stays ACTIVE changes
\* the value get returns for no key and no reader U # T.
C3_UncommittedWritesInvisible ==
    [][\A T \in ActiveIds :
          (/\ T \in DOMAIN transactions'
           /\ transactions'[T].state = ACTIVE
           /\ WritesInStep(T))
          => \A k \in Keys : \A U \in Readers \ {T} :
                 get(database', transactions', k, U)
                     = get(database, transactions, k, U)]_vars

\* C4: while T is ACTIVE, get(k, T) returns what T's last write to k left
\* (the value put, None after a delete), whatever other transactions did.
C4_OwnWritesVisible ==
    \A T \in ActiveIds : \A k \in Keys :
        WrittenBy(database, k, T) # {} =>
            get(database, transactions, k, T) = OwnLast(database, k, T)

\* C5: a transaction started after commit(A) reads, for every key A wrote,
\* A's last write, as long as no transaction that wrote the key after it
\* has committed.
C5_CommittedWritesSeenLater ==
    \A A \in DOMAIN transactions : \A k \in Keys :
        (/\ StateOf(A) = COMMITTED
         /\ WrittenBy(database, k, A) # {}
         /\ \A i \in 1 .. Len(database[k]) :
                i > SetMax(WrittenBy(database, k, A))
                    => StateOf(Writer(database[k][i])) # COMMITTED)
        => get(database, transactions, k, clock + 1)
               = OwnLast(database, k, A)

\* C6: the Record that record selection returns for a reader id T has an
\* xmin that is T itself or a COMMITTED transaction with a smaller id; never
\* an ABORTED or ABORTED_FAILED one, never an ACTIVE one other than T.
C6_SelectedRecordVisible ==
    \A k \in Keys : \A T \in 1 .. (MaxTxn + 1) :
        LET i == get_record(database, transactions, k, T)
        IN  i # 0 =>
              LET xmin == database[k][i].transaction_min
              IN  /\ xmin \in DOMAIN transactions
                  /\ \/ xmin = T
                     \/ StateOf(xmin) = COMMITTED /\ xmin < T
                  /\ StateOf(xmin) \notin {ABORTED, ABORTED_FAILED}
                  /\ StateOf(xmin) = ACTIVE => xmin = T

\* C6 witness: an ACTIVE reader is handed a Record of an older COMMITTED
\* transaction from a chain that also holds a Record of an aborted one.
C6_Witness ==
    \E k \in Keys : \E T \in ActiveIds :
        LET i == get_record(database, transactions, k, T)
        IN  /\ i # 0
            /\ database[k][i].transaction_min < T
            /\ StateOf(database[k][i].transaction_min) = COMMITTED
            /\ \E j \in 1 .. Len(database[k]) :
                   StateOf(database[k][j].transaction_min)
                       \in {ABORTED, ABORTED_FAILED}

\* C7: once the entry of an id is COMMITTED, ABORTED or ABORTED_FAILED, no
\* call changes the state recorded for that id.
C7_TerminalStateKept ==
    [][\A id \in DOMAIN transactions :
          StateOf(id) \in Terminal =>
              /\ id \in DOMAIN transactions'
              /\ transactions'[id].state = StateOf(id)]_vars

\* C8: commit(T) on an ACTIVE T makes T COMMITTED, rollback(T) on an ACTIVE
\* T makes it ABORTED; the chains and every other transaction stay as they
\* were.
C8_CommitRollbackFrame ==
    [][\A T \in ActiveIds :
          /\ CommitTransaction(T) =>
                /\ last'.status = OK
                /\ transactions'[T] = Transaction(T, COMMITTED)
                /\ OthersUnchanged(T)
                /\ database' = database
          /\ RollbackTransaction(T) =>
                /\ last'.status = OK
                /\ transactions'[T] = Transaction(T, ABORTED)
                /\ OthersUnchanged(T)
                /\ database' = database]_vars

\* C8 witness: a transaction that wrote was rolled back, another that wrote
\* after it was committed, and a third one is still ACTIVE.
C8_Witness ==
    /\ last.status = OK
    /\ ActiveIds # {}
    /\ \E k \in Keys : \E A, C \in DOMAIN transactions :
           /\ StateOf(A) = ABORTED
           /\ StateOf(C) = COMMITTED
           /\ WrittenBy(database, k, A) # {}
           /\ WrittenBy(database, k, C) # {}
           /\ SetMax(WrittenBy(database, k, A))
                  < SetMax(WrittenBy(database, k, C))

\* C9: commit or rollback of an id missing from the table raises
\* LookupError, of an id whose transaction is terminal raises ValueError;
\* neither changes the table or the chains.
\* (written as: the id is ACTIVE, or the step is as claimed, or the step is
\* no commit or rollback of the id)
C9_CommitRollbackErrors ==
    [][\A id \in TxnArgs \ {0} :
          \/ id \in DOMAIN transactions /\ StateOf(id) = ACTIVE
          \/ /\ last'.status = IF id \in DOMAIN transactions
                               THEN ValueError ELSE LookupError
             /\ transactions' = transactions
             /\ database' = database
          \/ ~(CommitTransaction(id) \/ RollbackTransaction(id))]_vars

\* C9 witness: a call was refused with ValueError while every transaction
\* of the table is terminal, one of each terminal state.
C9_Witness ==
    /\ last.status = ValueError
    /\ ActiveIds = {}
    /\ \A state \in Terminal :
           \E id \in DOMAIN transactions : StateOf(id) = state

\* C10: when delete(k, T) of an explicit ACTIVE T raises KeyError, T is
\* ABORTED_FAILED, no other transaction changed, and no reader gets anything
\* else than it would get without the Records T appended.
C10_FailurePoisons ==
    [][\A T \in ActiveIds : \A k \in Keys :
          (Delete(k, T, clock + 1) /\ last'.status = KeyError) =>
              /\ transactions'[T] = Transaction(T, ABORTED_FAILED)
              /\ OthersUnchanged(T)
              /\ \A k2 \in Keys : \A U \in Readers \ {T} :
                     get(database', transactions', k2, U)
                         = get(WithoutWritesOf(database', T),
                               transactions', k2, U)]_vars

OtherKeysUnchanged(k) ==
    \A k2 \in Keys : k2 # k => database'[k2] = database[k2]

\* C11: delete(k, T) raises KeyError exactly when record selection finds no
\* Record of k for T, and then appends nothing; otherwise it appends exactly
\* one Record with the value and xmin of the selected Record and xmax = T.
C11_DeleteContract ==
    [][\A k \in Keys : \A id \in WriterArgs :
          Delete(k, id, clock + 1) =>
              LET T == EffectiveId(id, clock + 1)
                  i == get_record(database, Started(id, clock + 1), k, T)
              IN  /\ i = 0 =>
                        /\ last'.status = KeyError
                        /\ database' = database
                  /\ i # 0 =>
                        /\ last'.status = OK
                        /\ database'[k] =
                             Append(database[k],
                                    Record(database[k][i].value,
                                           database[k][i].transaction_min,
                                           T))
                        /\ OtherKeysUnchanged(k)]_vars

\* C11 witness: the newest Record of a chain is the tombstone an ACTIVE
\* transaction appended for the Record of an older transaction, and some
\* transaction was poisoned by a delete that found nothing.
C11_Witness ==
    /\ last.status = OK
    /\ \E id \in DOMAIN transactions : StateOf(id) = ABORTED_FAILED
    /\ \E k \in Keys : \E T \in ActiveIds :
           /\ Len(database[k]) > 0
           /\ database[k][Len(database[k])].transaction_max = T
           /\ database[k][Len(database[k])].transaction_min < T

\* C12: get, put and delete called with an explicit id that is missing from
\* the table raise LookupError, with an id whose transaction is not ACTIVE
\* ValueError; the refused call appends no Record and changes the state of
\* no transaction, the one it names included.
\* (written as: the id is ACTIVE, or the step is as claimed, or the step is
\* no get, put or delete called with the id)
C12_ExplicitIdRefused ==
    [][\A id \in TxnArgs \ {0} :
          \/ id \in DOMAIN transactions /\ StateOf(id) = ACTIVE
          \/ /\ last'.status = IF id \in DOMAIN transactions
                               THEN ValueError ELSE LookupError
             /\ transactions' = transactions
             /\ database' = database
          \/ \A k \in Keys : \A v \in Values :
                ~(\/ Get(k, id, clock + 1)
                  \/ Put(k, v, id, clock + 1)
                  \/ Delete(k, id, clock + 1))]_vars

\* C12 witness: a call naming an id that is not in the table was refused
\* while the table holds a COMMITTED and a poisoned transaction and a chain
\* holds Records.
C12_Witness ==
    /\ last.status = LookupError
    /\ \E id \in TxnArgs : id \notin DOMAIN transactions /\ id # 0
    /\ \E id \in DOMAIN transactions : StateOf(id) = COMMITTED
    /\ \E id \in DOMAIN transactions : StateOf(id) = ABORTED_FAILED
    /\ \E k \in Keys : Len(database[k]) > 0

\* C13: a get, put or delete called without an id adds exactly one new entry
\* to the table, every Record the call appends carries the id of that entry,
\* and when the call returns normally the entry is COMMITTED.
C13_ImplicitTransaction ==
    [][\A t \in WallClock : \A k \in Keys : \A v \in Values :
          (Get(k, 0, t) \/ Put(k, v, 0, t) \/ Delete(k, 0, t)) =>
              /\ t \notin DOMAIN transactions
              /\ DOMAIN transactions' = (DOMAIN transactions) \cup {t}
              /\ \A k2 \in Keys : \A i \in Appended(k2) :
                     Writer(database'[k2][i]) = t
              /\ last'.status = OK =>
                     transactions'[t] = Transaction(t, COMMITTED)]_vars

\* C14: for a transaction X in any state and a reader id T in any order with
\* X's id, is_visible_to returns FALSE when X is ABORTED or ABORTED_FAILED,
\* else TRUE when X's id is T, else TRUE exactly when X is COMMITTED and X's
\* id is below T.
C14_VisibilityReference ==
    clock # 0 =>
        \A id \in DOMAIN transactions :
            LET X == transactions[id]
                T == clock
                reference ==
                    IF X.state \in {ABORTED, ABORTED_FAILED} THEN FALSE
                    ELSE IF X.created_at = T THEN TRUE
                    ELSE X.state = COMMITTED /\ X.created_at < T
            IN  last.result = reference

\* C14 witness: the method returned TRUE for a COMMITTED transaction asked
\* about by a reader with a greater id.
C14_Witness ==
    /\ clock # 0
    /\ last.result = TRUE
    /\ \E id \in DOMAIN transactions :
           /\ transactions[id].state = COMMITTED
           /\ transactions[id].created_at < clock

\* C15: the xmin of every Record is the id of an entry of the table, its
\* xmax is 0 or the id of an entry of the table, and 0 is no id of the table.
C15_ReferentialIntegrity ==
    /\ 0 \notin DOMAIN transactions
    /\ \A k \in Keys : \A i \in 1 .. Len(database[k]) :
           /\ database[k][i].transaction_min \in DOMAIN transactions
           /\ \/ database[k][i].transaction_max = 0
              \/ database[k][i].transaction_max \in DOMAIN transactions

\* C15 witness: a chain holds a live Record and a tombstone written by two
\* transactions of which one was rolled back.
C15_Witness ==
    \E k \in Keys : \E i, j \in 1 .. Len(database[k]) :
        /\ database[k][i].transaction_max = 0
        /\ database[k][j].transaction_max # 0
        /\ Writer(database[k][i]) # Writer(database[k][j])
        /\ \/ StateOf(Writer(database[k][i])) = ABORTED
           \/ StateOf(Writer(database[k][j])) = ABORTED

\* C16: the chain of every key is append-only: across every step the chain
\* before the step is a prefix of the chain after it.
C16_AppendOnly ==
    [][\A k \in Keys :
          /\ Len(database'[k]) >= Len(database[k])
          /\ \A i \in 1 .. Len(database[k]) :
                 database'[k][i] = database[k][i]]_vars

\* C16 witness: a chain of three Records that still holds what a rolled
\* back transaction and a poisoned transaction wrote.
C16_Witness ==
    \E k \in Keys :
        /\ Len(database[k]) >= 3
        /\ \E i, j \in 1 .. Len(database[k]) :
               /\ StateOf(Writer(database[k][i])) = ABORTED
               /\ StateOf(Writer(database[k][j])) = ABORTED_FAILED

\* C17: every start of a transaction, by start_transaction or by the wrapper
\* of a call made without an id, registers the transaction under an id that
\* is not in the table and is greater than every id in it, and leaves every
\* entry the table had as it was; an explicit start leaves the new entry
\* ACTIVE.
C17_StartRegistersFreshId ==
    [][\A t \in WallClock :
          (\/ StartTransaction(t)
           \/ \E k \in Keys : \E v \in Values :
                  Get(k, 0, t) \/ Put(k, v, 0, t) \/ Delete(k, 0, t))
          => /\ t \notin DOMAIN transactions
             /\ \A id \in DOMAIN transactions : id < t
             /\ t \in DOMAIN transactions'
             /\ StartTransaction(t) => transactions'[t] = Transaction(t, ACTIVE)
             /\ \A id \in DOMAIN transactions :
                    /\ id \in DOMAIN transactions'
                    /\ transactions'[id] = transactions[id]]_vars

\* C20: put(k, v, T) run for an ACTIVE T (an explicit ACTIVE id, or the
\* transaction the wrapper starts) returns normally and does not poison T.
\* When record selection finds a Record of k for T it appends exactly two
\* Records, the copy of that Record with xmax = T and then the live Record
\* (v, xmin = T, xmax = 0); when it finds none, exactly the live Record.
C20_PutContract ==
    [][\A k \in Keys : \A v \in Values : \A id \in WriterArgs :
          Put(k, v, id, clock + 1) =>
              LET T == EffectiveId(id, clock + 1)
                  i == get_record(database, Started(id, clock + 1), k, T)
                  live == Record(v, T, 0)
              IN  /\ last'.status = OK
                  /\ transactions'[T].state =
                         IF id = 0 THEN COMMITTED ELSE ACTIVE
                  /\ OthersUnchanged(T) \/ id = 0
                  /\ database'[k] =
                         IF i # 0
                         THEN database[k] \o
                                  <<Record(database[k][i].value,
                                           database[k][i].transaction_min,
                                           T),
                                    live>>
                         ELSE Append(database[k], live)
                  /\ OtherKeysUnchanged(k)]_vars

\* C20 witness: the chain ends with the tombstone and the live Record that a
\* put of a still ACTIVE transaction appended over the Record of an older
\* transaction.
C20_Witness ==
    /\ last.status = OK
    /\ \E k \in Keys : \E T \in ActiveIds :
           LET n == Len(database[k])
           IN  /\ n >= 3
               /\ database[k][n] = Record(database[k][n].value, T, 0)
               /\ database[k][n - 1].transaction_max = T
               /\ database[k][n - 1].transaction_min < T

\* C18: the binding of a session changes to an id only by START; START
\* binds the id of the ACTIVE transaction it created; after a COMMIT or a
\* ROLLBACK request the session is bound to no transaction; and a GET, PUT
\* or DELETE of a session that is bound to none runs under an implicit
\* transaction, one the call adds to the table.
C18_SessionBinding ==
    [][\A c \in Sessions :
          /\ (/\ session'[c].txn_id # session[c].txn_id
              /\ session'[c].txn_id # 0)
             => handler(c, <<"START">>, clock + 1)
          /\ handler(c, <<"START">>, clock + 1) =>
                /\ session'[c].txn_id = clock + 1
                /\ clock + 1 \notin DOMAIN transactions
                /\ transactions'[clock + 1] = Transaction(clock + 1, ACTIVE)
          /\ (\/ handler(c, <<"COMMIT">>, clock + 1)
              \/ handler(c, <<"ROLLBACK">>, clock + 1))
             => session'[c].txn_id = 0
          /\ \A line \in LinesOf("GET") \cup LinesOf("PUT")
                             \cup LinesOf("DELETE") :
                (session[c].txn_id = 0 /\ handler(c, line, clock + 1)) =>
                    /\ clock + 1 \notin DOMAIN transactions
                    /\ clock + 1 \in DOMAIN transactions'
                    /\ session'[c].txn_id = 0]_vars

\* C19: a malformed request line (the empty line, PUT with no value, DELETE
\* with no key, an unknown command) is answered with Error, the handler
\* stays in its loop, and the table, the chains and the binding of the
\* session are as they were.
C19_MalformedAnswered ==
    [][\A c \in Sessions : \A line \in MalformedLines :
          handler(c, line, clock + 1) =>
              /\ session'[c].output = "Error"
              /\ session'[c].serving
              /\ session'[c].txn_id = session[c].txn_id
              /\ transactions' = transactions
              /\ database' = database]_vars

\* C21: after rollback(A), get_record(k, txn_id=A) returns normally; for a
\* key A had updated or deleted it returns the Record that was committed
\* before A's writes (the one A's first tombstone copies, xmin # A), and
\* for a key that holds only Records written by A it returns None.
C21_ReadAfterRollback ==
    [][\A A \in DOMAIN transactions : \A k \in Keys :
          (StateOf(A) = ABORTED /\ GetRecord(k, A, clock + 1)) =>
              LET replaced == {i \in WrittenBy(database, k, A) :
                                  /\ database[k][i].transaction_max = A
                                  /\ database[k][i].transaction_min # A}
                  first == database[k][CHOOSE i \in replaced :
                                          \A j \in replaced : i <= j]
              IN  /\ last'.status = OK
                  /\ replaced # {} =>
                        /\ last'.result # NoRecord
                        /\ last'.result.value = first.value
                        /\ last'.result.transaction_min
                               = first.transaction_min
                        /\ last'.result.transaction_min # A
                  /\ (/\ WrittenBy(database, k, A) # {}
                      /\ \A i \in 1 .. Len(database[k]) :
                             Writer(database[k][i]) = A)
                     => last'.result = NoRecord]_vars

\* C22: a get, put or delete called without an id leaves the transaction
\* its wrapper started COMMITTED when the call returns and ABORTED_FAILED
\* when it raises; a transaction becomes ACTIVE only by start_transaction,
\* so every ACTIVE transaction of the table comes from an explicit start.
C22_NoImplicitLeftActive ==
    [][/\ \A k \in Keys : \A v \in Values :
             (\/ Get(k, 0, clock + 1)
              \/ Put(k, v, 0, clock + 1)
              \/ Delete(k, 0, clock + 1))
             => /\ clock + 1 \in DOMAIN transactions'
                /\ transactions'[clock + 1].state =
                       IF last'.status = OK THEN COMMITTED
                       ELSE ABORTED_FAILED
       /\ \A id \in DOMAIN transactions' :
             (/\ transactions'[id].state = ACTIVE
              /\ \/ id \notin DOMAIN transactions
                 \/ StateOf(id) # ACTIVE)
             => StartTransaction(id)]_vars

\* C22 witness: the call made last, without an id, raised KeyError and the
\* transaction its wrapper started is ABORTED_FAILED, next to a transaction
\* from an explicit start that is still ACTIVE and a COMMITTED one whose
\* Record is in the chain.
C22_Witness ==
    /\ last.status = KeyError
    /\ clock \in DOMAIN transactions
    /\ StateOf(clock) = ABORTED_FAILED
    /\ \A k \in Keys : WrittenBy(database, k, clock) = {}
    /\ ActiveIds # {}
    /\ \E k \in Keys : \E C \in DOMAIN transactions :
           /\ StateOf(C) = COMMITTED
           /\ WrittenBy(database, k, C) # {}

\* C23: while the transaction P bound to a session is ABORTED_FAILED, every
\* GET, PUT, DELETE, COMMIT and ROLLBACK of the session is answered with
\* Error and leaves the table, the chains and the binding as they were; the
\* session stays bound to the poisoned P until its own START, and START
\* binds it to a transaction that is new to the table and ACTIVE.
C23_PoisonedSession ==
    [][\A c \in Sessions :
          LET P == session[c].txn_id
          IN  (/\ P \in DOMAIN transactions
               /\ StateOf(P) = ABORTED_FAILED)
              => /\ \A command \in COMMANDS \ {"START"} :
                       \A line \in LinesOf(command) : \A t \in WallClock :
                          handler(c, line, t) =>
                              /\ session'[c].output = "Error"
                              /\ transactions' = transactions
                              /\ database' = database
                              /\ session'[c].txn_id = P
                 /\ \A t \in WallClock :
                       handler(c, <<"START">>, t) =>
                           /\ session'[c].output = "Ok"
                           /\ session'[c].txn_id \notin DOMAIN transactions
                           /\ session'[c].txn_id \in DOMAIN transactions'
                           /\ transactions'[session'[c].txn_id].state
                                  = ACTIVE
                 /\ \/ /\ session'[c].txn_id = P
                       /\ transactions'[P].state = ABORTED_FAILED
                    \/ \E t \in WallClock :
                          handler(c, <<"START">>, t)]_vars

====
